---- MODULE Spec2Model ----
(***************************************************************************)
(* Model of the fantasy EPL roster optimizer (src/optimize_roster.py).     *)
(*                                                                         *)
(* Strings are sequences of one-character strings (code points).  Numbers  *)
(* that the program keeps as floats with one decimal (adjustment factors,  *)
(* thresholds, the bench fraction, costs, the budget) are kept in tenths,  *)
(* so 0.3 is 3 and 1.0 is 10; variant scores are kept in hundredths of a   *)
(* point (points x tenths x tenths).                                       *)
(***************************************************************************)
EXTENDS Integers, Sequences, FiniteSets, TLC

VARIABLES
    pc,           \* position of the run that the specification follows
    player,       \* the Player object handed to player_in_roster / get_adjustment
    adjustments,  \* [isNone, list]: the adjustments list (None until parsed)
    threshold,    \* threshold argument, in tenths
    found,        \* index of the entry player_in_roster returned (0: None, -1: not called)
    adj,          \* value get_adjustment returned, in tenths (-1: not called)
    site,         \* what the stats site holds: position -> sequence of Player
    adjfile,      \* [isNone, rows]: the adjustments file named on the command line
    benchfrac,    \* bench fraction, in tenths
    budget,       \* budget, in tenths
    posIdx,       \* index into _positions of the position being processed
    _players,     \* the list downloader.get returned for that position
    k,            \* number of players of _players already processed
    _id,          \* last player id handed out
    _uid,         \* last variant id handed out
    players,      \* the pool: sequence of stats dicts (variants)
    seen,         \* history: the Player objects processed, by player id
    gets,         \* history: number of downloader.get calls that have returned
    parses,       \* history: number of get_injured_list calls made
    used,         \* history: the lists handed to get_adjustment so far
    cursor,       \* solver: index of the next pool item to decide
    sel,          \* solver: indexes of the pool items selected, ascending
    cons,         \* solver: the constraints, as optimize built them
    matrix,       \* solver: what each pool item adds to each constraint
    touched,      \* solver: touched[c]: the constraints the block at c has entries in
    lhs,          \* solver: left-hand side of each constraint over sel
    rest,         \* solver: rest[c]: what the items from index c on can add to it
    feasible,     \* solver: whether some selection satisfies the constraints
    r_xf,         \* r.xf: the names of the items of the solution
    roster,       \* print_results: the pool entries found for the solution
    total_cost,   \* print_results: total cost reported, in tenths
    under_budget, \* print_results: slack reported, in tenths
    team1,        \* teamdiff: the roster print_results wrote to the first team file
    team2,        \* teamdiff: the roster print_results wrote to the second team file
    fh1,          \* teamdiff: the lines of the first team file
    fh2,          \* teamdiff: the lines of the second team file
    roster1,      \* teamdiff: what read_team_file returned for the first file
    roster2,      \* teamdiff: what read_team_file returned for the second file
    similarity    \* teamdiff: the outcome of team_similarity

matchVars == <<player, adjustments, threshold, found, adj>>
loadVars == <<gets, parses, used>>
statsVars == <<site, adjfile, benchfrac, budget, posIdx, _players, k, _id, _uid,
               players, seen, loadVars>>
optVars == <<cursor, sel, cons, matrix, touched, lhs, rest, feasible, r_xf, roster,
            total_cost, under_budget>>
diffVars == <<team1, team2, fh1, fh2, roster1, roster2, similarity>>
vars == <<pc, matchVars, statsVars, optVars, diffVars>>

(***************************************************************************)
(* Characters                                                              *)
(***************************************************************************)
LowerCase == {"a", "c", "d", "e", "h", "i", "j", "l", "o", "r", "s"}
UpperCase == {"A", "C", "D", "E", "H", "J", "L", "O", "R", "S"}
Digits == {"0", "1", "2", "3", "4", "5", "6", "7", "8", "9"}
\* code points outside ASCII (one token per code point)
NonAscii == {"U+00E9", "U+00F6"}

\* str.lower() on an ASCII byte string
Lower(c) ==
    CASE c = "A" -> "a" [] c = "C" -> "c" [] c = "D" -> "d" [] c = "E" -> "e"
      [] c = "H" -> "h" [] c = "J" -> "j" [] c = "L" -> "l" [] c = "O" -> "o"
      [] c = "R" -> "r" [] c = "S" -> "s" [] OTHER -> c

\* s.encode('ascii', 'replace'): every code point outside ASCII becomes "?"
AsciiReplace(s) == [i \in 1..Len(s) |-> IF s[i] \in NonAscii THEN "?" ELSE s[i]]

\* the characters the regular expression class \w matches on a byte string
IsWordChar(c) == c \in LowerCase \cup UpperCase \cup Digits \cup {"_"}

\* sanitize(s): encode to ASCII, lower-case, delete everything [^\w] matches
sanitize(s) ==
    LET enc == AsciiReplace(s)
        low == [i \in 1..Len(enc) |-> Lower(enc[i])]
    IN  SelectSeq(low, IsWordChar)

\* s[:1]
Initial(s) == SubSeq(s, 1, IF Len(s) >= 1 THEN 1 ELSE 0)

(***************************************************************************)
(* player_in_roster                                                        *)
(***************************************************************************)
\* mutant: the club test left out
ClubMatches_Dropped(p, a) == TRUE

\* the club test of the scan: sanitize(_aplayer[club]) == pclub
ClubMatches(p, a) == sanitize(a.club) = sanitize(p.club)

\* mutant: the chain without its last branch (first initial and last name)
NameMatches_NoInitials(p, a) ==
    LET fname == sanitize(p.first_name)
        lname == sanitize(p.last_name)
        _aln == sanitize(a.last_name)
        _afn == sanitize(a.first_name)
    IN  IF _aln = lname /\ _afn = fname THEN TRUE
        ELSE IF _aln = lname /\ Len(fname) = 0 THEN TRUE
        ELSE IF _afn = fname /\ Len(lname) = 0 THEN TRUE
        ELSE FALSE

\* the if/elif chain on the names of one roster entry
NameMatches(p, a) ==
    LET fname == sanitize(p.first_name)
        lname == sanitize(p.last_name)
        _aln == sanitize(a.last_name)
        _afn == sanitize(a.first_name)
    IN  IF _aln = lname /\ _afn = fname THEN TRUE
        ELSE IF _aln = lname /\ Len(fname) = 0 THEN TRUE
        ELSE IF _afn = fname /\ Len(lname) = 0 THEN TRUE
        ELSE IF Initial(fname) = Initial(_afn) /\ _aln = lname THEN TRUE
        ELSE FALSE

\* the for loop over the roster, from entry i on: the index of the entry
\* returned, 0 for None
RECURSIVE ScanRoster(_, _, _)
ScanRoster(p, ros, i) ==
    IF i > Len(ros) THEN 0
    ELSE IF ClubMatches(p, ros[i]) /\ NameMatches(p, ros[i]) THEN i
    ELSE ScanRoster(p, ros, i + 1)

player_in_roster(p, ros) == ScanRoster(p, ros, 1)

(***************************************************************************)
(* get_adjustment                                                          *)
(***************************************************************************)
\* mutant: adj > threshold in place of adj >= threshold
IgnoreAbove_Strict(a, thr) == IF a > thr THEN 10 ELSE a

\* if adj >= threshold: adj = 1.
IgnoreAbove(a, thr) == IF a >= thr THEN 10 ELSE a

\* mutant: a factor of 0 is taken for a missing factor
get_adjustment_Falsy(p, adjs, thr) ==
    LET adj_player == player_in_roster(p, adjs)
        a == IF adj_player # 0 /\ adjs[adj_player].factor # 0
             THEN adjs[adj_player].factor
             ELSE 10
    IN  IgnoreAbove(a, thr)

get_adjustment(p, adjs, thr) ==
    LET adj_player == player_in_roster(p, adjs)
        a == IF adj_player # 0 THEN adjs[adj_player].factor ELSE 10
    IN  IgnoreAbove(a, thr)

(***************************************************************************)
(* get_player_stats                                                        *)
(***************************************************************************)
_positions == <<"forwards", "midfielders", "defenders", "keepers">>

\* position[:-1]
Singular(position) ==
    CASE position = "forwards" -> "forward"
      [] position = "midfielders" -> "midfielder"
      [] position = "defenders" -> "defender"
      [] position = "keepers" -> "keeper"

\* _uid = 990000
UidBase == 990000

\* for captain in [0, 1]: for pfx in ['', 'sub-']: the order of the variants
VariantOrder ==
    << [captain |-> 0, pfx |-> ""], [captain |-> 0, pfx |-> "sub-"],
       [captain |-> 1, pfx |-> ""], [captain |-> 1, pfx |-> "sub-"] >>

\* mutant: the two labels exchanged
BenchLabel_Inverted(pfx) == IF pfx = "" THEN "sub" ELSE "starter"

\* "starter" if not len(pfx) else "sub"
BenchLabel(pfx) == IF pfx = "" THEN "starter" ELSE "sub"

\* mutant: the captain's doubling is applied to starters only
VariantPoints_CaptainStartersOnly(points, pfx, captain, adj_factor, bf) ==
    LET benched == IF pfx # "" THEN points * bf ELSE points * 10
        doubled == IF captain = 1 /\ pfx = "" THEN benched * 2 ELSE benched
    IN  doubled * adj_factor

\* points of one variant, in hundredths: the player's score, times benchfrac
\* for a sub, times 2 for a captain, times the adjustment factor
VariantPoints(points, pfx, captain, adj_factor, bf) ==
    LET benched == IF pfx # "" THEN points * bf ELSE points * 10
        doubled == IF captain = 1 THEN benched * 2 ELSE benched
    IN  doubled * adj_factor

\* the key of the one indicator field set to 1: stats[pfx+position[:-1]] = 1
IndicatorKey(pfx, position) == [pfx |-> pfx, pos |-> Singular(position)]

\* the stats dict of one variant (the id%d fields are added at the end of
\* get_player_stats; the name field is NameOf)
MakeStats(p, position, id, uid, captain, pfx, adj_factor, bf) ==
    [ cost |-> p.cost,
      score |-> VariantPoints(p.total_points, pfx, captain, adj_factor, bf),
      pid |-> id,
      uid |-> uid,
      bench |-> BenchLabel(pfx),
      position |-> Singular(position),
      fname |-> p.first_name,
      lname |-> p.last_name,
      club |-> p.club,
      captain |-> captain,
      ind |-> IndicatorKey(pfx, position),
      ids |-> {} ]

\* mutant: _uid is advanced in the loop over captain only, so a starter and
\* a sub share a variant id
Variants_SharedUid(p, position, id, uid0, adj_factor, bf) ==
    [ n \in 1..4 |->
        MakeStats(p, position, id, uid0 + 1 + VariantOrder[n].captain,
                  VariantOrder[n].captain, VariantOrder[n].pfx, adj_factor, bf) ]

\* the four variants of one player, the first of them taking variant id uid0 + 1
Variants(p, position, id, uid0, adj_factor, bf) ==
    [ n \in 1..4 |->
        MakeStats(p, position, id, uid0 + n, VariantOrder[n].captain,
                  VariantOrder[n].pfx, adj_factor, bf) ]

\* adj_factor = 1., or get_adjustment(...) when there is an adjustments list
AdjFactor(p, adjs, thr) ==
    IF adjs.isNone THEN 10 ELSE get_adjustment(p, adjs.list, thr)

\* get_injured_list(adjfile): the rows of the file, in file order
get_injured_list(file) == [isNone |-> FALSE, list |-> file.rows]

\* all_ids = range(_id + 1)
StatsAllIds(id) == 0..id

\* player['id%d' % i] = float(player['pid']==i), for i in all_ids: the set
\* of the i whose field is 1.0
IdFields(v, all_ids) == {i \in all_ids : v.pid = i}

AddIdFields(pool, id) ==
    [ n \in 1..Len(pool) |->
        [pool[n] EXCEPT !.ids = IdFields(pool[n], StatsAllIds(id))] ]

\* decimal digits of a natural number, as "%d" prints them
RECURSIVE DigitsOf(_)
DigitChar(d) ==
    CASE d = 0 -> "0" [] d = 1 -> "1" [] d = 2 -> "2" [] d = 3 -> "3"
      [] d = 4 -> "4" [] d = 5 -> "5" [] d = 6 -> "6" [] d = 7 -> "7"
      [] d = 8 -> "8" [] d = 9 -> "9"
DigitsOf(n) ==
    IF n < 10 THEN <<DigitChar(n)>>
    ELSE Append(DigitsOf(n \div 10), DigitChar(n % 10))

\* str.strip() of a sequence of characters
RECURSIVE Strip(_)
Strip(s) ==
    IF Len(s) = 0 THEN s
    ELSE IF s[1] = " " THEN Strip(Tail(s))
    ELSE IF s[Len(s)] = " " THEN Strip(SubSeq(s, 1, Len(s) - 1))
    ELSE s

\* postfix = "starter" / "sub", plus "- captain" for a captain
Postfix(v) ==
    <<v.bench>> \o (IF v.captain = 1 THEN <<"-", " ", "captain">> ELSE <<>>)

\* the name field: "%s %s - %s - %s (%d)" of first name, last name,
\* position, postfix and variant id, stripped
NameOf(v) ==
    Strip(v.fname \o <<" ">> \o v.lname \o <<" ", "-", " ">> \o <<v.position>>
          \o <<" ", "-", " ">> \o Postfix(v) \o <<" ", "(">> \o DigitsOf(v.uid)
          \o <<")">>)

(***************************************************************************)
(* optimize: the constraints handed to the knapsack solver                 *)
(***************************************************************************)
\* keys of the fields of a stats dict that the constraints read
CostKey == [kind |-> "cost", pfx |-> "", pos |-> "", i |-> 0]
CaptainKey == [kind |-> "captain", pfx |-> "", pos |-> "", i |-> 0]
IndKey(pfx, pos) == [kind |-> "ind", pfx |-> pfx, pos |-> pos, i |-> 0]
IdKey(i) == [kind |-> "id", pfx |-> "", pos |-> "", i |-> i]

\* the value of one field of a stats dict
FieldValue(v, key) ==
    CASE key.kind = "cost" -> v.cost
      [] key.kind = "captain" -> v.captain
      [] key.kind = "ind" ->
            IF v.ind = [pfx |-> key.pfx, pos |-> key.pos] THEN 1 ELSE 0
      [] key.kind = "id" -> IF key.i \in v.ids THEN 1 ELSE 0

Con(keys, op, rhs) == [keys |-> keys, op |-> op, rhs |-> rhs]

\* mutant: range(players[-1]['pid']), which leaves the last player id out
OptAllIds_OffByOne(pool) == 0..(pool[Len(pool)].pid - 1)

\* all_ids = range(players[-1]['pid']+1)
OptAllIds(pool) == 0..pool[Len(pool)].pid

\* tuple([values['id%d'%i]<=1 for i in all_ids])
UniquenessConstraints(all_ids) ==
    [ n \in 1..Cardinality(all_ids) |-> Con(<<IdKey(n - 1)>>, "<=", 1) ]

\* mutant: the budget may be overrun by 0.5
BudgetConstraint_Overrun(b) == Con(<<CostKey>>, "<=", b + 5)

\* values['cost'] <= budget
BudgetConstraint(b) == Con(<<CostKey>>, "<=", b)

\* values['captain'] == 1
CaptainConstraint == Con(<<CaptainKey>>, "==", 1)

\* the position quotas
QuotaConstraints ==
    << Con(<<IndKey("", "forward")>>, ">=", 1),
       Con(<<IndKey("", "forward")>>, "<=", 3),
       Con(<<IndKey("", "forward"), IndKey("sub-", "forward")>>, "==", 3),
       Con(<<IndKey("", "midfielder")>>, ">=", 3),
       Con(<<IndKey("", "midfielder")>>, "<=", 5),
       Con(<<IndKey("", "midfielder"), IndKey("sub-", "midfielder")>>, "==", 5),
       Con(<<IndKey("", "defender")>>, ">=", 3),
       Con(<<IndKey("", "defender")>>, "<=", 5),
       Con(<<IndKey("", "defender"), IndKey("sub-", "defender")>>, "==", 5),
       Con(<<IndKey("", "keeper")>>, "==", 1),
       Con(<<IndKey("sub-", "keeper")>>, "==", 1) >>

\* mutant: the bench may hold fewer than 4
SubsConstraint_AtMost ==
    Con(<<IndKey("sub-", "forward"), IndKey("sub-", "midfielder"),
          IndKey("sub-", "defender"), IndKey("sub-", "keeper")>>, "<=", 4)

\* the four sub fields sum to 4
SubsConstraint ==
    Con(<<IndKey("sub-", "forward"), IndKey("sub-", "midfielder"),
          IndKey("sub-", "defender"), IndKey("sub-", "keeper")>>, "==", 4)

\* constraints = lambda values : (...) + tuple(...)
Constraints(pool, b) ==
    <<BudgetConstraint(b)>> \o QuotaConstraints \o <<CaptainConstraint>>
        \o <<SubsConstraint>> \o UniquenessConstraints(OptAllIds(pool))

\* the sum of the keys of a constraint over one stats dict
RECURSIVE KeysValue(_, _, _)
KeysValue(v, keys, n) ==
    IF n = 0 THEN 0 ELSE FieldValue(v, keys[n]) + KeysValue(v, keys, n - 1)

\* values[...] of a constraint: the sum over the items s[1..n] of the pool
RECURSIVE Lhs(_, _, _, _)
Lhs(pool, c, s, n) ==
    IF n = 0 THEN 0
    ELSE KeysValue(pool[s[n]], c.keys, Len(c.keys)) + Lhs(pool, c, s, n - 1)

Holds(c, x) ==
    CASE c.op = "<=" -> x <= c.rhs
      [] c.op = ">=" -> x >= c.rhs
      [] c.op = "==" -> x = c.rhs

\* the selection s of pool items satisfies every constraint of cs
Feasible(pool, cs, s) ==
    \A n \in 1..Len(cs) : Holds(cs[n], Lhs(pool, cs[n], s, Len(s)))

(***************************************************************************)
(* The solver (KSP(...).solve).  It fixes the 0/1 variables in pool order, *)
(* one block of consecutive items at a time, and gives a partial selection *)
(* up as soon as some constraint can no longer be met whatever is decided  *)
(* for the remaining items.                                                *)
(***************************************************************************)
\* what pool item v adds to the left-hand side of each constraint
Contribution(cs, v) ==
    [ n \in 1..Len(cs) |-> KeysValue(v, cs[n].keys, Len(cs[n].keys)) ]

\* the constraint matrix: one row per pool item
Matrix(pool, cs) == [ i \in 1..Len(pool) |-> Contribution(cs, pool[i]) ]

\* the sum of column n of the rows first..last of the matrix m
RECURSIVE ColumnSum(_, _, _, _)
ColumnSum(m, n, first, last) ==
    IF first > last THEN 0 ELSE m[first][n] + ColumnSum(m, n, first + 1, last)

\* the sum of column n of the rows c + o of the matrix, o in S
RECURSIVE PickedSum(_, _, _, _)
PickedSum(m, n, S, c) ==
    IF S = {} THEN 0
    ELSE LET o == CHOOSE x \in S : TRUE
         IN  m[c + o][n] + PickedSum(m, n, S \ {o}, c)

\* over the constraints in cols: no upper bound is exceeded, and every
\* lower bound is still within reach
Promising(cs, cols, l, r) ==
    \A n \in cols :
        LET x == l[n]
        IN  /\ cs[n].op \in {"<=", "=="} => x <= cs[n].rhs
            /\ cs[n].op \in {">=", "=="} => x + r[n] >= cs[n].rhs

\* the items of one block are the variants of one player
BlockSize == Len(VariantOrder)

\* the players each position has to have in a selection: the right-hand
\* sides of the equalities on forward, midfielder, defender and keeper fields
SquadQuota ==
    [forward |-> 3, midfielder |-> 5, defender |-> 5, keeper |-> 1 + 1]

\* the ids of the players of the pool at a position
PidsAt(pool, position) ==
    {pool[i].pid : i \in {j \in 1..Len(pool) : pool[j].position = position}}

\* the cost of a player, which all its variants carry
CostOf(pool, pid) == pool[CHOOSE i \in 1..Len(pool) : pool[i].pid = pid].cost

\* the cost of the n cheapest players of S
RECURSIVE CheapestSum(_, _, _)
CheapestSum(pool, S, n) ==
    IF n = 0 THEN 0
    ELSE LET m == CHOOSE x \in S :
                      \A y \in S : CostOf(pool, x) <= CostOf(pool, y)
         IN  CostOf(pool, m) + CheapestSum(pool, S \ {m}, n - 1)

\* the least cost of a selection that meets the position quotas
MinQuotaCost(pool) ==
    CheapestSum(pool, PidsAt(pool, "forward"), SquadQuota.forward)
    + CheapestSum(pool, PidsAt(pool, "midfielder"), SquadQuota.midfielder)
    + CheapestSum(pool, PidsAt(pool, "defender"), SquadQuota.defender)
    + CheapestSum(pool, PidsAt(pool, "keeper"), SquadQuota.keeper)

\* the solver has a feasible point to find: every position has the players
\* its quota asks for, and the cheapest such squad is within the budget
HasFeasiblePoint(pool, b) ==
    /\ \A position \in DOMAIN SquadQuota :
          Cardinality(PidsAt(pool, position)) >= SquadQuota[position]
    /\ MinQuotaCost(pool) <= b

\* the constraints in which some item of the block at index c has an entry
Touched(m, cs, c) ==
    {n \in 1..Len(cs) :
        \E i \in c..(c + BlockSize - 1) : i <= Len(m) /\ m[i][n] # 0}

(***************************************************************************)
(* print_results                                                           *)
(***************************************************************************)
\* int(m.group(1))
RECURSIVE IntOf(_, _)
DigitValue(ch) ==
    CASE ch = "0" -> 0 [] ch = "1" -> 1 [] ch = "2" -> 2 [] ch = "3" -> 3
      [] ch = "4" -> 4 [] ch = "5" -> 5 [] ch = "6" -> 6 [] ch = "7" -> 7
      [] ch = "8" -> 8 [] ch = "9" -> 9
IntOf(s, n) ==
    IF n = 0 THEN 0 ELSE IntOf(s, n - 1) * 10 + DigitValue(s[n])

\* the index after the run of digits that starts at index i
RECURSIVE DigitsEnd(_, _)
DigitsEnd(name, i) ==
    IF i <= Len(name) /\ name[i] \in Digits THEN DigitsEnd(name, i + 1) ELSE i

\* re.search(r'\((\d+)\)', name), from index i on: the number in the first
\* pair of parentheses that holds only digits, -1 when there is none
RECURSIVE SearchUid(_, _)
SearchUid(name, i) ==
    IF i > Len(name) THEN -1
    ELSE LET e == DigitsEnd(name, i + 1)
         IN  IF name[i] = "(" /\ e > i + 1 /\ e <= Len(name) /\ name[e] = ")"
             THEN IntOf(SubSeq(name, i + 1, e - 1), e - i - 1)
             ELSE SearchUid(name, i + 1)

\* uids: one per name of the solution
Uids(names) == [n \in 1..Len(names) |-> SearchUid(names[n], 1)]

InSeq(x, s) == \E n \in 1..Len(s) : s[n] = x

\* roster: the pool entries whose uid is among uids, in pool order
RosterOf(pool, uids) == SelectSeq(pool, LAMBDA v : InSeq(v.uid, uids))

\* total_cost += player['cost'], over the roster
RECURSIVE TotalCost(_, _)
TotalCost(ros, n) == IF n = 0 THEN 0 ELSE TotalCost(ros, n - 1) + ros[n].cost

\* round(x) of a float given in tenths: to the nearest whole number, halves
\* away from zero; the result again in tenths
RoundTenths(x) ==
    IF x >= 0 THEN ((x + 5) \div 10) * 10 ELSE -(((-x + 5) \div 10) * 10)

\* under_budget = round(budget-total_cost); zero is reported as 0.
UnderBudget(b, total) == RoundTenths(b - total)

(***************************************************************************)
(* The team file: print_results writes it, read_team_file reads it         *)
(***************************************************************************)
\* the characters of the words that position and bench fields hold
Spelled(w) ==
    CASE w = "forward" -> <<"f", "o", "r", "w", "a", "r", "d">>
      [] w = "midfielder" -> <<"m", "i", "d", "f", "i", "e", "l", "d", "e", "r">>
      [] w = "defender" -> <<"d", "e", "f", "e", "n", "d", "e", "r">>
      [] w = "keeper" -> <<"k", "e", "e", "p", "e", "r">>
      [] w = "starter" -> <<"s", "t", "a", "r", "t", "e", "r">>
      [] w = "sub" -> <<"s", "u", "b">>

\* roster_line_format = u"{:<15}{:<15}{:<15}{:<14}{:^6}{:<5}{:<7}"
roster_line_format ==
    << [align |-> "<", width |-> 15], [align |-> "<", width |-> 15],
       [align |-> "<", width |-> 15], [align |-> "<", width |-> 14],
       [align |-> "^", width |-> 6], [align |-> "<", width |-> 5],
       [align |-> "<", width |-> 7] >>

Spaces(n) == [i \in 1..n |-> " "]

\* one replacement field: the value is padded to the width of the field and
\* is never cut; "^" centres it, with the odd space on the right
FormatField(f, value) ==
    LET pad == IF f.width > Len(value) THEN f.width - Len(value) ELSE 0
        left == IF f.align = "^" THEN pad \div 2 ELSE 0
    IN  Spaces(left) \o value \o Spaces(pad - left)

\* row_format.format(*values), the first n fields
RECURSIVE FormatFields(_, _, _)
FormatFields(fmt, values, n) ==
    IF n = 0 THEN <<>>
    ELSE FormatFields(fmt, values, n - 1) \o FormatField(fmt[n], values[n])

\* print >>fh, row_format.format(...): the formatted row and a newline
PrintRow(values) ==
    Append(FormatFields(roster_line_format, values, Len(roster_line_format)), "\n")

\* a cost in tenths as format() writes the float: 4.5, 10.0
CostText(c) == DigitsOf(c \div 10) \o <<".">> \o DigitsOf(c % 10)

HeaderRow ==
    PrintRow(<< <<"F", "i", "r", "s", "t", " ", "N", "a", "m", "e">>,
                <<"L", "a", "s", "t", " ", "N", "a", "m", "e">>,
                <<"P", "o", "s", "i", "t", "i", "o", "n">>,
                <<"S", "t", "a", "r", "t", "i", "n", "g">>,
                <<"C", "a", "p", "t", ".">>,
                <<"C", "l", "u", "b">>,
                <<"S", "a", "l", "a", "r", "y">> >>)

DelimiterRow == PrintRow([n \in 1..7 |-> <<"-", "-", "-">>])

\* the row of one roster entry
RosterRow(v) ==
    PrintRow(<< v.fname, v.lname, Spelled(v.position), Spelled(v.bench),
                IF v.captain = 1 THEN <<"X">> ELSE <<>>, v.club,
                CostText(v.cost) >>)

\* what print_results(r, players, fh=fh, print_cost=False) writes for the
\* roster ros: the header, the delimiters, one row per entry
PrintedFile(ros) ==
    <<HeaderRow, DelimiterRow>> \o [n \in 1..Len(ros) |-> RosterRow(ros[n])]

\* _get_line_slices: the number that ends each replacement field
_get_line_slices(formatstr) == [n \in 1..Len(formatstr) |-> formatstr[n].width]

Whitespace == {" ", "\n"}

\* str.strip() of a line piece
RECURSIVE StripPiece(_)
StripPiece(s) ==
    IF Len(s) = 0 THEN s
    ELSE IF s[1] \in Whitespace THEN StripPiece(Tail(s))
    ELSE IF s[Len(s)] \in Whitespace THEN StripPiece(SubSeq(s, 1, Len(s) - 1))
    ELSE s

\* line[i:j] with 0-based bounds, cut at the end of the line
Slice(line, i, j) ==
    SubSeq(line, i + 1, IF j > Len(line) THEN Len(line) ELSE j)

\* _slice_line: the pieces n.. of the line, the first of them starting at i
RECURSIVE SliceFrom(_, _, _, _)
SliceFrom(line, points, n, i) ==
    IF n > Len(points) THEN <<>>
    ELSE <<StripPiece(Slice(line, i, i + points[n]))>>
         \o SliceFrom(line, points, n + 1, i + points[n])

_slice_line(line, points) == SliceFrom(line, points, 1, 0)

\* the index of the "." of s, 0 when it has none
DotIndex(s) ==
    IF \E i \in 1..Len(s) : s[i] = "."
    THEN CHOOSE i \in 1..Len(s) : s[i] = "." /\ \A j \in 1..(i - 1) : s[j] # "."
    ELSE 0

\* float(s) in tenths, for digits with at most one "." and at most one
\* digit after it; -1 stands for the ValueError float raises on anything
\* else that can turn up here
ParseFloat(s) ==
    LET d == DotIndex(s)
        whole == IF d = 0 THEN s ELSE SubSeq(s, 1, d - 1)
        frac == IF d = 0 THEN <<>> ELSE SubSeq(s, d + 1, Len(s))
    IN  IF /\ \A i \in 1..Len(whole) : whole[i] \in Digits
           /\ \A i \in 1..Len(frac) : frac[i] \in Digits
           /\ Len(whole) + Len(frac) >= 1
           /\ Len(frac) <= 1
        THEN IntOf(whole, Len(whole)) * 10
             + (IF Len(frac) = 1 THEN DigitValue(frac[1]) ELSE 0)
        ELSE -1

\* one content line as read_team_file interprets it; the keys are those of
\* the header row: first_name, last_name, position, starting, capt. (here
\* capt), club, salary
ReadRow(line) ==
    LET slices == _slice_line(line, _get_line_slices(roster_line_format))
    IN  [ first_name |-> slices[1],
          last_name |-> slices[2],
          position |-> slices[3],
          starting |-> slices[4],
          capt |-> Len(slices[5]) > 0,
          club |-> slices[6],
          salary |-> ParseFloat(slices[7]) ]

\* read_team_file(fh): the lines after the header and the delimiters
read_team_file(lines) == [n \in 1..(Len(lines) - 2) |-> ReadRow(lines[n + 2])]

\* float(slices[-1]) raises ValueError on some line
ReadFails(lines) ==
    \E n \in 1..Len(read_team_file(lines)) : read_team_file(lines)[n].salary = -1

(***************************************************************************)
(* team_similarity.  Ownership is kept in quarters (1.0 is 4) and a weight *)
(* ln(1/ownership) in units of ln 2, so ownership 0.5 weighs 1 and 0.25    *)
(* weighs 2.  The cosine d / sqrt(n), with d the dot product and n the     *)
(* product of the squared norms, is kept exactly as the sign of d and the  *)
(* reduced fraction d*d / n.                                               *)
(***************************************************************************)
\* np.log(1./freq)
LogInverse(freq) ==
    CASE freq = 4 -> 0
      [] freq = 2 -> 1
      [] freq = 1 -> 2

RECURSIVE Dot(_, _, _)
Dot(v, w, n) == IF n = 0 THEN 0 ELSE Dot(v, w, n - 1) + v[n] * w[n]

RECURSIVE Gcd(_, _)
Gcd(a, b) == IF b = 0 THEN a ELSE Gcd(b, a % b)

Sign(x) == IF x > 0 THEN 1 ELSE IF x < 0 THEN -1 ELSE 0

NaN == [kind |-> "nan", sign |-> 0, num |-> 0, den |-> 0]

ZeroDivisionError == [kind |-> "ZeroDivisionError", sign |-> 0, num |-> 0, den |-> 0]

NoSimilarity == [kind |-> "none", sign |-> 0, num |-> 0, den |-> 0]

\* the number sign * sqrt(num / den)
Number(d, n) ==
    [kind |-> "number", sign |-> Sign(d),
     num |-> (d * d) \div Gcd(d * d, n), den |-> n \div Gcd(d * d, n)]

One == [kind |-> "number", sign |-> 1, num |-> 1, den |-> 1]

\* mutant: the dot product is divided by the squared norm of v1
Cosine_ByFirstNorm(v1, v2) ==
    LET d == Dot(v1, v2, Len(v1))
        n == Dot(v1, v1, Len(v1)) * Dot(v1, v1, Len(v1))
    IN  IF n = 0 THEN NaN ELSE Number(d, n)

\* np.dot(v1, v2) / (np.linalg.norm(v1) * np.linalg.norm(v2)); numpy gives
\* nan for 0.0 / 0.0 and raises nothing
Cosine(v1, v2) ==
    LET d == Dot(v1, v2, Len(v1))
        n == Dot(v1, v1, Len(v1)) * Dot(v2, v2, Len(v2))
    IN  IF n = 0 THEN NaN ELSE Number(d, n)

\* in_team_one, in_team_two
InTeam(p, ros) == player_in_roster(p, ros) # 0

\* mutant: a player found in both teams weighs nothing
Weight_SharedDropped(p, ros, other) ==
    IF InTeam(p, ros) /\ ~InTeam(p, other) THEN LogInverse(p.ownership) ELSE 0

\* v1[i] or v2[i]: ipf when the player is in the team ros, else the 0. of
\* np.zeros
Weight(p, ros, other) == IF InTeam(p, ros) THEN LogInverse(p.ownership) ELSE 0

\* team_similarity(roster1, roster2, players): 1./freq raises
\* ZeroDivisionError for a player of either team whose ownership is 0
team_similarity(ros1, ros2, pool) ==
    IF \E i \in 1..Len(pool) :
          /\ InTeam(pool[i], ros1) \/ InTeam(pool[i], ros2)
          /\ pool[i].ownership = 0
    THEN ZeroDivisionError
    ELSE Cosine([i \in 1..Len(pool) |-> Weight(pool[i], ros1, ros2)],
                [i \in 1..Len(pool) |-> Weight(pool[i], ros2, ros1)])

\* the values of the teamdiff variables in a run of the optimizer
NoTeamDiff ==
    /\ team1 = <<>>
    /\ team2 = <<>>
    /\ fh1 = <<>>
    /\ fh2 = <<>>
    /\ roster1 = <<>>
    /\ roster2 = <<>>
    /\ similarity = NoSimilarity

(***************************************************************************)
(* Inputs of the matcher specification                                     *)
(***************************************************************************)
MaxAdj == 2

CandFirst == {<<>>, <<"J", "o">>}
CandLast == {<<>>, <<"D", "e">>}
CandClub == {<<"A", "r", "s">>}
EntryFirst == {<<>>, <<"J", ".", "o">>, <<"j", "U+00E9", "_">>}
EntryLast == {<<"d", "-", "E">>, <<"D", "o">>}
EntryClub == {<<"A", "R", "S", ".">>, <<"C", "h", "e">>}
\* 0.0, 0.3, and 1.2: a factor outside [0,1]
Factors == {0, 3, 12}
Thresholds == {0, 3, 10, 15}

Candidates ==
    [first_name : CandFirst, last_name : CandLast, club : CandClub]
Entries ==
    [first_name : EntryFirst, last_name : EntryLast, club : EntryClub,
     factor : Factors]

RECURSIVE SeqsUpTo(_, _)
SeqsUpTo(S, n) ==
    IF n = 0 THEN {<<>>}
    ELSE LET shorter == SeqsUpTo(S, n - 1)
         IN  shorter \cup {Append(s, e) : s \in shorter, e \in S}

NoList == [isNone |-> TRUE, list |-> <<>>]
AList(l) == [isNone |-> FALSE, list |-> l]

(***************************************************************************)
(* Matcher specification: the two pure functions applied to drawn inputs   *)
(***************************************************************************)
InitMatch ==
    /\ pc = "match"
    /\ player \in Candidates
    /\ adjustments \in {AList(l) : l \in SeqsUpTo(Entries, MaxAdj)}
    /\ threshold \in Thresholds
    /\ found = -1
    /\ adj = -1
    /\ site = <<>>
    /\ adjfile = NoList
    /\ benchfrac = 1
    /\ budget = 1000
    /\ posIdx = 0
    /\ _players = <<>>
    /\ k = 0
    /\ _id = 0
    /\ _uid = 0
    /\ players = <<>>
    /\ seen = <<>>
    /\ gets = 0
    /\ parses = 0
    /\ used = {}
    /\ cursor = 0
    /\ sel = <<>>
    /\ cons = <<>>
    /\ matrix = <<>>
    /\ touched = <<>>
    /\ lhs = <<>>
    /\ rest = <<>>
    /\ feasible = FALSE
    /\ r_xf = <<>>
    /\ roster = <<>>
    /\ total_cost = 0
    /\ under_budget = 0
    /\ NoTeamDiff

CallPlayerInRoster ==
    /\ pc = "match"
    /\ found' = player_in_roster(player, adjustments.list)
    /\ pc' = "adjust"
    /\ UNCHANGED <<diffVars, player, adjustments, threshold, adj, statsVars, optVars>>

CallGetAdjustment ==
    /\ pc = "adjust"
    /\ adj' = get_adjustment(player, adjustments.list, threshold)
    /\ pc' = "matched"
    /\ UNCHANGED <<diffVars, player, adjustments, threshold, found, statsVars, optVars>>

NextMatch == CallPlayerInRoster \/ CallGetAdjustment

SpecMatch == InitMatch /\ [][NextMatch]_vars

(***************************************************************************)
(* Inputs of a run of optimize_roster                                      *)
(***************************************************************************)
MaxPlayers == 3

\* Player objects as the downloader builds them (cost in tenths).  The
\* attribute named by score is total_points; score_is_none tells that the
\* site gave null for it, in which case the number is not there to be read
SitePlayers ==
    { [first_name |-> <<"J", "o">>, last_name |-> <<"D", "e">>,
       club |-> <<"A", "r", "s">>, cost |-> 95, total_points |-> 120,
       score_is_none |-> FALSE],
      [first_name |-> <<>>, last_name |-> <<"D", "o">>,
       club |-> <<"C", "h", "e">>, cost |-> 60, total_points |-> 80,
       score_is_none |-> FALSE],
      [first_name |-> <<"A", "l">>, last_name |-> <<"D", "U+00F6", "e">>,
       club |-> <<"A", "r", "s">>, cost |-> 45, total_points |-> 7,
       score_is_none |-> FALSE],
      [first_name |-> <<"L", "e">>, last_name |-> <<"R", "o", "s", "e">>,
       club |-> <<"C", "h", "e">>, cost |-> 50, total_points |-> 0,
       score_is_none |-> TRUE] }

\* the sites that hold at most n players over the first j positions
RECURSIVE SitesUpTo(_, _)
SitesUpTo(j, n) ==
    IF j = 0 THEN {<<>>}
    ELSE UNION { {Append(d, l) : d \in SitesUpTo(j - 1, n - Len(l))} :
                 l \in SeqsUpTo(SitePlayers, n) }

SmallSites == SitesUpTo(Len(_positions), MaxPlayers)

\* an adjustments file: the first row devalues Jo De of Arsenal to 0.3, the
\* second puts a Chelsea player named Do out (factor 0)
AdjRows ==
    << [first_name |-> <<"J", ".", "o">>, last_name |-> <<"d", "-", "E">>,
        club |-> <<"A", "R", "S", ".">>, factor |-> 3],
       [first_name |-> <<"J", "o">>, last_name |-> <<"D", "o">>,
        club |-> <<"C", "h", "e">>, factor |-> 0] >>

NoFile == [isNone |-> TRUE, rows |-> <<>>]
AFile(rows) == [isNone |-> FALSE, rows |-> rows]

RunThresholds == {2, 5, 10}
BenchFracs == {1, 5}

\* budget = 100.
DefaultBudget == 1000

NoPlayer == [first_name |-> <<>>, last_name |-> <<>>, club |-> <<>>]

(***************************************************************************)
(* One run: get_player_stats, step by step                                 *)
(***************************************************************************)
InitStats ==
    /\ pc = "get"
    /\ player = NoPlayer
    /\ found = -1
    /\ adj = -1
    /\ adjustments = NoList
    /\ posIdx = 1
    /\ _players = <<>>
    /\ k = 0
    /\ _id = 0
    /\ _uid = UidBase
    /\ players = <<>>
    /\ seen = <<>>
    /\ gets = 0
    /\ parses = 0
    /\ used = {}
    /\ cursor = 0
    /\ sel = <<>>
    /\ cons = <<>>
    /\ matrix = <<>>
    /\ touched = <<>>
    /\ lhs = <<>>
    /\ rest = <<>>
    /\ feasible = FALSE
    /\ r_xf = <<>>
    /\ roster = <<>>
    /\ total_cost = 0
    /\ under_budget = 0
    /\ NoTeamDiff

InitSmall ==
    /\ InitStats
    /\ site \in SmallSites
    /\ benchfrac \in BenchFracs
    /\ budget = DefaultBudget
    /\ \/ adjfile = NoFile /\ threshold = 10
       \/ adjfile = AFile(AdjRows) /\ threshold \in RunThresholds
       \/ adjfile = AFile(<<>>) /\ threshold = 10

\* _players = downloader.get(position, ...).  With the pl source the call
\* also rewrites the adjustments file from the (cached) site data; adjfile
\* holds the rows the file has once the call has returned
GetPosition ==
    /\ pc = "get"
    /\ _players' = site[posIdx]
    /\ k' = 0
    /\ gets' = gets + 1
    /\ pc' = "adj"
    /\ UNCHANGED <<diffVars, matchVars, site, adjfile, benchfrac, budget, posIdx, _id,
                   _uid, players, seen, parses, used, optVars>>

\* variant: the test "not adjustments", which an empty list passes too
NeedsParse_Falsy(file, adjs) == ~file.isNone /\ (adjs.isNone \/ adjs.list = <<>>)

\* adjfile is not None and adjustments is None
NeedsParse(file, adjs) == ~file.isNone /\ adjs.isNone

\* if adjfile is not None and adjustments is None: parse the file
LoadAdjustments ==
    /\ pc = "adj"
    /\ IF NeedsParse(adjfile, adjustments)
       THEN /\ adjustments' = get_injured_list(adjfile)
            /\ parses' = parses + 1
       ELSE UNCHANGED <<adjustments, parses>>
    /\ pc' = "players"
    /\ UNCHANGED <<diffVars, player, threshold, found, adj, site, adjfile, benchfrac,
                   budget, posIdx, _players, k, _id, _uid, players, seen, gets, used,
                   optVars>>

\* one pass of "for player in _players": four variants appended to the
\* pool.  When the score read from the player is None, points *= adj_factor
\* raises TypeError in the first pass of the inner loops, after _id and _uid
\* were advanced and before anything is appended; nothing catches it
ProcessPlayer ==
    /\ pc = "players"
    /\ k < Len(_players)
    /\ LET p == _players[k + 1]
           adj_factor == AdjFactor(p, adjustments, threshold)
       IN  IF p.score_is_none
           THEN /\ pc' = "error"
                /\ _id' = _id + 1
                /\ _uid' = _uid + 1
                /\ UNCHANGED <<players, seen, k>>
           ELSE /\ players' = players \o Variants(p, _positions[posIdx], _id + 1,
                                                  _uid, adj_factor, benchfrac)
                /\ seen' = Append(seen, p)
                /\ _id' = _id + 1
                /\ _uid' = _uid + 4
                /\ k' = k + 1
                /\ pc' = pc
    /\ used' = IF adjustments.isNone THEN used ELSE used \cup {adjustments.list}
    /\ UNCHANGED <<diffVars, matchVars, site, adjfile, benchfrac, budget, posIdx,
                   _players, gets, parses, optVars>>

\* the end of "for player in _players": on to the next position, or out of
\* the loop over _positions
NextPosition ==
    /\ pc = "players"
    /\ k = Len(_players)
    /\ IF posIdx < Len(_positions)
       THEN posIdx' = posIdx + 1 /\ pc' = "get"
       ELSE posIdx' = posIdx /\ pc' = "ids"
    /\ UNCHANGED <<diffVars, matchVars, site, adjfile, benchfrac, budget, _players, k,
                   _id, _uid, players, seen, loadVars, optVars>>

\* the id%d fields are added and the pool is returned
ReturnPlayers ==
    /\ pc = "ids"
    /\ players' = AddIdFields(players, _id)
    /\ pc' = "stats_done"
    /\ UNCHANGED <<diffVars, matchVars, site, adjfile, benchfrac, budget, posIdx,
                   _players, k, _id, _uid, seen, loadVars, optVars>>

NextStats ==
    \/ GetPosition
    \/ LoadAdjustments
    \/ ProcessPlayer
    \/ NextPosition
    \/ ReturnPlayers

SpecStats == InitSmall /\ [][NextStats]_vars

(***************************************************************************)
(* A site that holds one keeper more than a squad needs: 3 forwards,       *)
(* 5 midfielders, 5 defenders and 3 keepers, numbered 1..16 in download    *)
(* order                                                                   *)
(***************************************************************************)
SquadNames ==
    << [first_name |-> <<"J", "o">>, last_name |-> <<"D", "e">>,
        club |-> <<"A", "r", "s">>],
       [first_name |-> <<>>, last_name |-> <<"D", "o">>,
        club |-> <<"C", "h", "e">>],
       [first_name |-> <<"A", "l">>, last_name |-> <<"D", "U+00F6", "e">>,
        club |-> <<"A", "r", "s">>] >>

SquadPlayer(n) ==
    [first_name |-> SquadNames[(n % 3) + 1].first_name,
     last_name |-> SquadNames[(n % 3) + 1].last_name,
     club |-> SquadNames[(n % 3) + 1].club,
     cost |-> 40 + 5 * (n % 3),
     total_points |-> 10 * n,
     score_is_none |-> FALSE]

SquadSizes == <<3, 5, 5, 3>>

RECURSIVE SquadBefore(_)
SquadBefore(j) == IF j = 1 THEN 0 ELSE SquadBefore(j - 1) + SquadSizes[j - 1]

SquadSite ==
    [ j \in 1..Len(_positions) |->
        [ n \in 1..SquadSizes[j] |-> SquadPlayer(SquadBefore(j) + n) ] ]

\* 10.0, too small for any squad, and 67.5, within which the squads with
\* keepers 14 and 15 (67.5) and 15 and 16 (67.0) are, and the squad with
\* keepers 14 and 16 (68.0) is not
SquadBudgets == {100, 675}

InitSquad ==
    /\ InitStats
    /\ site = SquadSite
    /\ benchfrac = 1
    /\ budget \in SquadBudgets
    /\ adjfile = NoFile
    /\ threshold = 10

(***************************************************************************)
(* One run, continued: optimize and print_results                          *)
(***************************************************************************)
\* optimize, from the return of get_player_stats to the call of the solver;
\* players[-1] raises IndexError on an empty pool
StartSolve ==
    /\ pc = "stats_done"
    /\ IF Len(players) = 0
       THEN pc' = "error"
            /\ UNCHANGED <<cursor, sel, cons, matrix, touched, lhs, rest, feasible>>
       ELSE LET cs == Constraints(players, budget)
                m == Matrix(players, cs)
            IN  /\ pc' = "solve"
                /\ cursor' = 1
                /\ sel' = <<>>
                /\ cons' = cs
                /\ matrix' = m
                /\ touched' = [c \in 1..Len(players) |-> Touched(m, cs, c)]
                /\ lhs' = [n \in 1..Len(cs) |-> 0]
                /\ feasible' = HasFeasiblePoint(players, budget)
                /\ rest' = [c \in 1..(Len(players) + 1) |->
                             [n \in 1..Len(cs) |-> ColumnSum(m, n, c, Len(players))]]
    /\ UNCHANGED <<diffVars, matchVars, statsVars, r_xf, roster, total_cost, under_budget>>

\* the solver fixes the variables of the block that starts at cursor: the
\* items at the offsets in S are taken, the others are left out; only the
\* constraints the block has an entry in need to be looked at again
Decide ==
    /\ pc = "solve"
    /\ cursor <= Len(players)
    /\ \E S \in SUBSET (0..(BlockSize - 1)) :
         /\ Promising(cons, touched[cursor],
                      [n \in 1..Len(cons) |-> lhs[n] + PickedSum(matrix, n, S, cursor)],
                      rest[cursor + BlockSize])
         /\ lhs' = [n \in 1..Len(cons) |->
                      IF n \in touched[cursor]
                      THEN lhs[n] + PickedSum(matrix, n, S, cursor)
                      ELSE lhs[n]]
         /\ sel' = sel \o SelectSeq([o \in 1..BlockSize |-> cursor + o - 1],
                                    LAMBDA i : (i - cursor) \in S)
    /\ cursor' = cursor + BlockSize
    /\ UNCHANGED <<pc, diffVars, matchVars, statsVars, cons, matrix, touched, rest,
                   feasible, r_xf, roster, total_cost, under_budget>>

\* the solver returns a selection that satisfies the constraints: r.xf holds
\* the names of its items
Solved ==
    /\ pc = "solve"
    /\ cursor > Len(players)
    /\ Feasible(players, cons, sel)
    /\ r_xf' = [n \in 1..Len(sel) |-> NameOf(players[sel[n]])]
    /\ pc' = "solved"
    /\ UNCHANGED <<diffVars, matchVars, statsVars, cursor, sel, cons, matrix, touched,
                   lhs, rest, feasible, roster, total_cost, under_budget>>

\* the problem has no feasible point: the solver stops, and the r it returns
\* is an object all the same; r.xf holds the names of the items of the point
\* it stopped at, which satisfies the constraints looked at so far only
Stopped ==
    /\ pc = "solve"
    /\ ~feasible
    /\ r_xf' = [n \in 1..Len(sel) |-> NameOf(players[sel[n]])]
    /\ pc' = "stopped"
    /\ UNCHANGED <<diffVars, matchVars, statsVars, cursor, sel, cons, matrix, touched,
                   lhs, rest, feasible, roster, total_cost, under_budget>>

\* if r is not None: print_results(r, players, budget=cli.budget);
\* ValueError when a name holds no uid
PrintResults ==
    /\ pc \in {"solved", "stopped"}
    /\ LET uids == Uids(r_xf)
       IN  IF InSeq(-1, uids)
           THEN pc' = "error" /\ UNCHANGED <<roster, total_cost, under_budget>>
           ELSE LET ros == RosterOf(players, uids)
                    total == TotalCost(ros, Len(ros))
                IN  /\ roster' = ros
                    /\ total_cost' = total
                    /\ under_budget' = UnderBudget(budget, total)
                    /\ pc' = "printed"
    /\ UNCHANGED <<diffVars, matchVars, statsVars, cursor, sel, cons, matrix, touched,
                   lhs, rest, feasible, r_xf>>

Init == InitSquad

Next ==
    \/ GetPosition
    \/ LoadAdjustments
    \/ ProcessPlayer
    \/ NextPosition
    \/ ReturnPlayers
    \/ StartSolve
    \/ Decide
    \/ Solved
    \/ Stopped
    \/ PrintResults

Spec == Init /\ [][Next]_vars

(***************************************************************************)
(* One run of teamdiff on two team files that print_results wrote          *)
(***************************************************************************)
MaxRows == 2

\* a first name of 16 characters and a last name of 15
LongFirst ==
    <<"D", "e", "l", "a", "r", "o", "s", "a", "-", "R", "o", "d", "e", "i", "r", "o">>
LongLast ==
    <<"E", "s", "c", "a", "l", "e", "r", "a", "-", "R", "o", "s", "a", "d", "o">>

\* roster entries as print_results finds them in the pool of variants
TeamRows ==
    { [fname |-> <<"J", "o">>, lname |-> <<"D", "e">>, position |-> "forward",
       bench |-> "starter", captain |-> 1, club |-> <<"A", "r", "s">>,
       cost |-> 95],
      [fname |-> LongFirst, lname |-> <<"D", "o">>, position |-> "midfielder",
       bench |-> "sub", captain |-> 0, club |-> <<"C", "h", "e">>,
       cost |-> 60],
      [fname |-> <<"A", "l">>, lname |-> LongLast, position |-> "defender",
       bench |-> "starter", captain |-> 0, club |-> <<"A", "r", "s">>,
       cost |-> 45],
      [fname |-> <<>>, lname |-> <<"R", "o", "s", "e">>, position |-> "keeper",
       bench |-> "sub", captain |-> 0, club |-> <<"C", "h", "e">>,
       cost |-> 100] }

Teams == SeqsUpTo(TeamRows, MaxRows)

\* ownership in quarters: 0, 0.25, 0.5, 1.0
Ownerships == {0, 1, 2, 4}

\* the Player objects teamdiff downloads
DiffPools ==
    { << [first_name |-> <<"J", "o">>, last_name |-> <<"D", "e">>,
          club |-> <<"A", "r", "s">>, ownership |-> o1],
         [first_name |-> LongFirst, last_name |-> <<"D", "o">>,
          club |-> <<"C", "h", "e">>, ownership |-> 2],
         [first_name |-> <<"A", "l">>, last_name |-> LongLast,
          club |-> <<"A", "r", "s">>, ownership |-> o3],
         [first_name |-> <<"L", "e">>, last_name |-> <<"R", "o", "s", "e">>,
          club |-> <<"C", "h", "e">>, ownership |-> 1] >> :
      o1 \in Ownerships, o3 \in Ownerships }

InitDiff ==
    /\ pc = "write"
    /\ players \in DiffPools
    /\ team1 \in Teams
    /\ team2 \in Teams
    /\ fh1 = <<>>
    /\ fh2 = <<>>
    /\ roster1 = <<>>
    /\ roster2 = <<>>
    /\ similarity = NoSimilarity
    /\ player = NoPlayer
    /\ adjustments = NoList
    /\ threshold = 10
    /\ found = -1
    /\ adj = -1
    /\ site = <<>>
    /\ adjfile = NoFile
    /\ benchfrac = 1
    /\ budget = DefaultBudget
    /\ posIdx = 0
    /\ _players = <<>>
    /\ k = 0
    /\ _id = 0
    /\ _uid = 0
    /\ seen = <<>>
    /\ gets = 0
    /\ parses = 0
    /\ used = {}
    /\ cursor = 0
    /\ sel = <<>>
    /\ cons = <<>>
    /\ matrix = <<>>
    /\ touched = <<>>
    /\ lhs = <<>>
    /\ rest = <<>>
    /\ feasible = FALSE
    /\ r_xf = <<>>
    /\ roster = <<>>
    /\ total_cost = 0
    /\ under_budget = 0

\* two runs of the optimizer with --out: print_results(r, players, fh=fh,
\* print_cost=False) writes each team file
WriteTeamFiles ==
    /\ pc = "write"
    /\ fh1' = PrintedFile(team1)
    /\ fh2' = PrintedFile(team2)
    /\ pc' = "read1"
    /\ UNCHANGED <<matchVars, statsVars, optVars, team1, team2, roster1,
                   roster2, similarity>>

\* roster1 = read_team_file(fh)
ReadTeamFile1 ==
    /\ pc = "read1"
    /\ IF ReadFails(fh1)
       THEN pc' = "error" /\ roster1' = roster1
       ELSE pc' = "read2" /\ roster1' = read_team_file(fh1)
    /\ UNCHANGED <<matchVars, statsVars, optVars, team1, team2, fh1, fh2,
                   roster2, similarity>>

\* roster2 = read_team_file(fh)
ReadTeamFile2 ==
    /\ pc = "read2"
    /\ IF ReadFails(fh2)
       THEN pc' = "error" /\ roster2' = roster2
       ELSE pc' = "compare" /\ roster2' = read_team_file(fh2)
    /\ UNCHANGED <<matchVars, statsVars, optVars, team1, team2, fh1, fh2,
                   roster1, similarity>>

\* similarity = team_similarity(roster1, roster2, players)
CallTeamSimilarity ==
    /\ pc = "compare"
    /\ similarity' = team_similarity(roster1, roster2, players)
    /\ pc' = "compared"
    /\ UNCHANGED <<matchVars, statsVars, optVars, team1, team2, fh1, fh2,
                   roster1, roster2>>

NextDiff ==
    \/ WriteTeamFiles
    \/ ReadTeamFile1
    \/ ReadTeamFile2
    \/ CallTeamSimilarity

SpecDiff == InitDiff /\ [][NextDiff]_vars

(***************************************************************************)
(* Properties of the variant pool                                          *)
(***************************************************************************)
PoolReturned == pc = "stats_done"

VariantsOf(pid) == {n \in 1..Len(players) : players[n].pid = pid}

\* C1: in every pool get_player_stats returns, each player id owns exactly
\* 4 variants, their (role, captaincy) pairs are the four combinations of
\* {starter, sub} x {0, 1}, and no two variants share a variant id.
C1_FourDistinctVariantsPerPlayer ==
    PoolReturned =>
        /\ \A n \in 1..Len(players) : players[n].pid \in 1.._id
        /\ \A pid \in 1.._id :
              /\ Cardinality(VariantsOf(pid)) = 4
              /\ {<<players[n].bench, players[n].captain>> : n \in VariantsOf(pid)}
                    = {"starter", "sub"} \X {0, 1}
        /\ \A m, n \in 1..Len(players) :
              m # n => players[m].uid # players[n].uid

\* a pool of three players downloaded for at least two positions
C1_Witness ==
    /\ PoolReturned
    /\ _id = 3
    /\ Len(players) = 12
    /\ players[1].position # players[12].position

\* the factor get_adjustment returns for the player, 1 without a list
FactorFor(p) ==
    IF adjustments.isNone THEN 10
    ELSE get_adjustment(p, adjustments.list, threshold)

\* C6: the score of every variant is the player's score, times the bench
\* fraction for a sub, times 2 for a captain, times the adjustment factor
\* get_adjustment returns for the player (1 when there is no list).  Scores
\* are in hundredths: points x tenths x tenths.
C6_VariantScore ==
    PoolReturned =>
        \A n \in 1..Len(players) :
            LET v == players[n]
                p == seen[v.pid]
                role == IF v.bench = "sub" THEN benchfrac ELSE 10
                capt == IF v.captain = 1 THEN 2 ELSE 1
            IN  /\ v.score = p.total_points * role * capt * FactorFor(p)
                /\ adjfile.isNone => v.score = p.total_points * role * capt * 10

\* a captain on the bench whose player the adjustments list devalues to 0.3
C6_Witness ==
    /\ PoolReturned
    /\ ~adjustments.isNone
    /\ \E n \in 1..Len(players) :
          /\ players[n].bench = "sub"
          /\ players[n].captain = 1
          /\ FactorFor(seen[players[n].pid]) = 3
          /\ players[n].score = seen[players[n].pid].total_points * benchfrac * 2 * 3
          /\ players[n].score > 0

\* C13: a player whose score attribute is None is skipped: get_player_stats
\* does not abort with an error on it.
C13_NullScoreDoesNotAbort ==
    ~(/\ pc = "error"
      /\ k < Len(_players)
      /\ _players[k + 1].score_is_none)

\* C21: in a run of get_player_stats with an adjustments file, the file is
\* parsed (get_injured_list) at most once over the four position iterations,
\* no parse happens before the first downloader.get call has returned, every
\* player of every position is adjusted against that one parsed list, and
\* the list stays what the parse returned (get_adjustment and
\* player_in_roster leave it alone).
C21_AdjustmentsParsedOnce ==
    ~adjfile.isNone =>
        /\ parses <= 1
        /\ parses > 0 => gets > 0
        /\ used = IF _id = 0 THEN {} ELSE {get_injured_list(adjfile).list}
        /\ adjustments = IF parses = 0 THEN NoList ELSE get_injured_list(adjfile)

\* a run with an adjustments file has returned a pool with players of two
\* positions, after four downloads and one parse
C21_Witness ==
    /\ PoolReturned
    /\ ~adjfile.isNone
    /\ gets = Len(_positions)
    /\ parses = 1
    /\ used = {adjustments.list}
    /\ \E m, n \in 1..Len(players) : players[m].position # players[n].position

(***************************************************************************)
(* Properties of the selections that satisfy the constraints of optimize   *)
(***************************************************************************)
\* the solver has returned a selection
SelectionComplete ==
    /\ pc \in {"solved", "printed"}
    /\ cursor > Len(players)

\* the selection satisfies every constraint built in optimize
SatisfiesConstraints ==
    /\ SelectionComplete
    /\ Feasible(players, cons, sel)

\* the number of selected variants with the given role and position fields
Count(role, position) ==
    Cardinality({n \in 1..Len(sel) :
        players[sel[n]].bench = role /\ players[sel[n]].position = position})

Captains == {n \in 1..Len(sel) : players[sel[n]].captain = 1}

Subs == {n \in 1..Len(sel) : players[sel[n]].bench = "sub"}

\* C2: a selection that satisfies the constraints has, by the role and
\* position fields of its variants, 1 starter keeper and 1 sub keeper,
\* 3 to 5 starter defenders and 5 defenders, 3 to 5 starter midfielders and
\* 5 midfielders, 1 to 3 starter forwards and 3 forwards, exactly 1 captain
\* and exactly 4 subs.
C2_QuotasByOwnFields ==
    SatisfiesConstraints =>
        /\ Count("starter", "keeper") = 1
        /\ Count("sub", "keeper") = 1
        /\ Count("starter", "defender") \in 3..5
        /\ Count("starter", "defender") + Count("sub", "defender") = 5
        /\ Count("starter", "midfielder") \in 3..5
        /\ Count("starter", "midfielder") + Count("sub", "midfielder") = 5
        /\ Count("starter", "forward") \in 1..3
        /\ Count("starter", "forward") + Count("sub", "forward") = 3
        /\ Cardinality(Captains) = 1
        /\ Cardinality(Subs) = 4

\* a 3-5-2 formation returned by the solver
C2_Witness ==
    /\ pc = "solved"
    /\ SatisfiesConstraints
    /\ Count("starter", "defender") = 3
    /\ Count("starter", "midfielder") = 5
    /\ Count("starter", "forward") = 2

\* C3: in a selection that satisfies the constraints, the selected variant
\* that carries the captain flag has role starter.
C3_CaptainIsStarter ==
    SatisfiesConstraints =>
        \A n \in Captains : players[sel[n]].bench = "starter"

\* C4: in a selection that satisfies the constraints, no player id is
\* carried by more than one selected variant.
C4_OneVariantPerPlayer ==
    SatisfiesConstraints =>
        \A pid \in 1.._id :
            Cardinality({n \in 1..Len(sel) : players[sel[n]].pid = pid}) <= 1

\* the solver returned a selection of 15 of the 16 players of the pool
C4_Witness ==
    /\ pc = "solved"
    /\ SatisfiesConstraints
    /\ _id = 16
    /\ {players[sel[n]].pid : n \in 1..Len(sel)} = (1..16) \ {14}

RECURSIVE SelectedCost(_)
SelectedCost(n) ==
    IF n = 0 THEN 0 ELSE SelectedCost(n - 1) + players[sel[n]].cost

\* C5: when a selection that satisfies the constraints has been decoded by
\* print_results, the total cost reported is the sum of the costs of the
\* selected variants and is not greater than the budget.
C5_TotalCostWithinBudget ==
    (pc = "printed" /\ SatisfiesConstraints) =>
        /\ total_cost = SelectedCost(Len(sel))
        /\ total_cost <= budget

\* a roster decoded whose total cost is exactly the budget
C5_Witness ==
    /\ pc = "printed"
    /\ SatisfiesConstraints
    /\ Len(roster) = Len(sel)
    /\ total_cost = SelectedCost(Len(sel))
    /\ total_cost = budget

Starters == {n \in 1..Len(sel) : players[sel[n]].bench = "starter"}

\* C20: a selection that satisfies the constraints holds exactly 15
\* variants, 11 of them with role starter and 4 with role sub, and the 15
\* variants belong to 15 distinct players.
C20_FifteenVariantsOfDistinctPlayers ==
    SatisfiesConstraints =>
        /\ Len(sel) = 15
        /\ Cardinality(Starters) = 11
        /\ Cardinality(Subs) = 4
        /\ Cardinality({players[sel[n]].pid : n \in 1..Len(sel)}) = 15

\* a 4-4-2 formation returned by the solver out of the pool of 16 players
C20_Witness ==
    /\ pc = "solved"
    /\ SatisfiesConstraints
    /\ Len(players) = 64
    /\ Len(sel) = 15
    /\ Count("starter", "defender") = 4
    /\ Count("starter", "midfielder") = 4
    /\ Count("starter", "forward") = 2

(***************************************************************************)
(* Properties of the decode step                                           *)
(***************************************************************************)
\* C11: print_results never prints a roster of fewer or more than 15 rows:
\* whenever it has printed, the roster it found in the pool has 15 entries.
C11_FifteenRowsOrError ==
    pc = "printed" => Len(roster) = 15

\* C12: the budget slack reported by print_results equals the budget minus
\* the total cost of the decoded roster (costs and budget are exact tenths
\* here, so no rounding residue arises); stated for the rosters of the
\* selections that satisfy the constraints.
C12_SlackIsDifference ==
    (pc = "printed" /\ SatisfiesConstraints) =>
        under_budget = budget - total_cost

\* C14: when the budget is below the least cost of a selection that meets
\* the position quotas, print_results is never executed in the run.
C14_InfeasibleNeverDecoded ==
    pc = "printed" => ~(budget < MinQuotaCost(players))

(***************************************************************************)
(* Properties of the identity matcher and the adjustment resolver          *)
(***************************************************************************)
\* the entry the matcher returned, when it returned one
FoundEntry == adjustments.list[found]

AllFactorsInUnit(l) == \A i \in 1..Len(l) : l[i].factor >= 0 /\ l[i].factor <= 10

\* C7: get_adjustment returns 1.0 when the matcher finds no entry; when an
\* entry is matched it returns the entry's factor if that factor is strictly
\* below the threshold, and 1.0 if the factor is at or above the threshold.
C7_AdjustmentByThreshold ==
    pc = "matched" =>
        /\ found = 0 => adj = 10
        /\ (found # 0 /\ FoundEntry.factor < threshold) => adj = FoundEntry.factor
        /\ (found # 0 /\ FoundEntry.factor >= threshold) => adj = 10

C7_Witness ==
    /\ pc = "matched"
    /\ found # 0
    /\ FoundEntry.factor < threshold
    /\ FoundEntry.factor # 10
    /\ adj = FoundEntry.factor

\* C8 as stated: with every factor of the list in [0,1], the value returned
\* by get_adjustment is strictly greater than 0 and at most 1.
C8_Original ==
    (pc = "matched" /\ AllFactorsInUnit(adjustments.list)) =>
        (adj > 0 /\ adj <= 10)

\* C8 amended: with every factor of the list in [0,1], the value returned by
\* get_adjustment lies in the closed interval [0,1]; it is 0 when the matched
\* entry has factor 0 and the threshold is above 0.
C8_AdjustmentInClosedUnit ==
    (pc = "matched" /\ AllFactorsInUnit(adjustments.list)) =>
        /\ adj >= 0 /\ adj <= 10
        /\ (found # 0 /\ FoundEntry.factor = 0 /\ threshold > 0) => adj = 0

C8_Witness ==
    /\ pc = "matched"
    /\ AllFactorsInUnit(adjustments.list)
    /\ found # 0
    /\ FoundEntry.factor = 0
    /\ adj = 0

\* C9: player_in_roster returns None for an empty pool and never returns an
\* entry whose normalized club differs from the candidate's normalized club,
\* whatever the names are.
C9_ClubMismatchNeverMatches ==
    found # -1 =>
        /\ Len(adjustments.list) = 0 => found = 0
        /\ found # 0 => sanitize(FoundEntry.club) = sanitize(player.club)

\* the matcher passed over a first entry of another club that carries the
\* very names of the entry it returned
C9_Witness ==
    /\ found = 2
    /\ sanitize(adjustments.list[1].club) # sanitize(player.club)
    /\ sanitize(adjustments.list[1].first_name) = sanitize(player.first_name)
    /\ sanitize(adjustments.list[1].last_name) = sanitize(player.last_name)

\* C19: the result of sanitize holds lower-case letters and digits only;
\* stated for the names and clubs the matcher has normalized.
C19_SanitizeKeepsAlnumOnly ==
    found # -1 =>
        \A i \in 1..Len(adjustments.list) :
            \A s \in {adjustments.list[i].first_name, adjustments.list[i].last_name,
                       adjustments.list[i].club} :
                \A n \in 1..Len(sanitize(s)) :
                    sanitize(s)[n] \in LowerCase \cup Digits

(***************************************************************************)
(* Properties of the team file and of team_similarity                      *)
(***************************************************************************)
\* the record read_team_file is to return for the roster entry v
Expected(v) ==
    [ first_name |-> v.fname,
      last_name |-> v.lname,
      position |-> Spelled(v.position),
      starting |-> Spelled(v.bench),
      capt |-> v.captain = 1,
      club |-> v.club,
      salary |-> v.cost ]

\* C18: reading the file print_results wrote for a roster yields one record
\* per roster row, in the same order, with the same first name, last name,
\* position, role, captain flag, club and salary.
C18_TeamFileRoundTrip ==
    pc \in {"read2", "compare", "compared"} =>
        roster1 = [n \in 1..Len(team1) |-> Expected(team1[n])]

\* C15: team_similarity is symmetric in its two rosters: the outcome for
\* (roster1, roster2) is the outcome for (roster2, roster1).
C15_SimilaritySymmetric ==
    pc = "compared" => similarity = team_similarity(roster2, roster1, players)

\* two different rosters that share a player, similarity strictly between
\* 0 and 1
C15_Witness ==
    /\ pc = "compared"
    /\ roster1 # roster2
    /\ similarity.kind = "number"
    /\ similarity.sign = 1
    /\ similarity.num < similarity.den
    /\ similarity = team_similarity(roster2, roster1, players)

\* every ownership of the pool is in (0,1]
OwnershipInUnit ==
    \A i \in 1..Len(players) : players[i].ownership \in {1, 2, 4}

\* the pool players matched in roster1 with a weight other than 0
WeighingIn1 ==
    {i \in 1..Len(players) :
        InTeam(players[i], roster1) /\ players[i].ownership \in {1, 2}}

C17_NeverNaN ==
    pc = "compared" => similarity.kind # "nan"

\* the four name rules of the matcher, as the specification words them
InitialsEqual(f1, f2) ==
    \/ Len(f1) = 0 /\ Len(f2) = 0
    \/ Len(f1) > 0 /\ Len(f2) > 0 /\ f1[1] = f2[1]

Rule1(p, a) ==
    /\ sanitize(a.first_name) = sanitize(p.first_name)
    /\ sanitize(a.last_name) = sanitize(p.last_name)
Rule2(p, a) ==
    /\ sanitize(a.last_name) = sanitize(p.last_name)
    /\ sanitize(p.first_name) = <<>>
Rule3(p, a) ==
    /\ sanitize(a.first_name) = sanitize(p.first_name)
    /\ sanitize(p.last_name) = <<>>
Rule4(p, a) ==
    /\ sanitize(a.last_name) = sanitize(p.last_name)
    /\ InitialsEqual(sanitize(p.first_name), sanitize(a.first_name))

Qualifies(p, a) ==
    /\ sanitize(a.club) = sanitize(p.club)
    /\ Rule1(p, a) \/ Rule2(p, a) \/ Rule3(p, a) \/ Rule4(p, a)

QualifyingIndexes == {i \in 1..Len(adjustments.list) : Qualifies(player, adjustments.list[i])}

\* C10: player_in_roster returns the lowest-index entry that has the
\* candidate's normalized club and satisfies at least one of the four name
\* rules, and None exactly when no entry qualifies.
C10_FirstQualifyingEntryWins ==
    found # -1 =>
        /\ found = 0 <=> QualifyingIndexes = {}
        /\ found # 0 =>
              /\ found \in QualifyingIndexes
              /\ \A i \in QualifyingIndexes : found <= i

\* the entry returned satisfies the initials rule only, and a later entry
\* satisfies the full-name rule
C10_Witness ==
    /\ found = 1
    /\ Len(adjustments.list) >= 2
    /\ ~Rule1(player, adjustments.list[1])
    /\ ~Rule2(player, adjustments.list[1])
    /\ ~Rule3(player, adjustments.list[1])
    /\ Qualifies(player, adjustments.list[2])
    /\ Rule1(player, adjustments.list[2])

====
